---- MODULE Spec2Model ----
(***************************************************************************)
(* KDE Theme Backup & Switcher: the MainWindow of kde_theme_gui.py, in its *)
(* two revisions                                                           *)
(*   rev "A"  src/kde_theme_gui.py                                         *)
(*   rev "B"  src/deb-build/usr/lib/kde-theme-backup/kde_theme_gui.py      *)
(* Every Qt slot (button handler, QProcess signal handler) is one action.  *)
(* A modal dialog is modelled by the answer the user gives to it.  The     *)
(* QProcess objects and the file system under BACKUP_DIR are the           *)
(* environment: a QProcess created by _start_process keeps emitting its    *)
(* signals to the connected slots whether or not self.process still names  *)
(* it (it is parented to the window and never killed or disconnected).     *)
(***************************************************************************)
EXTENDS Integers, Sequences, FiniteSets, TLC

VARIABLES
    rev,          \* which revision of the source runs
    process,      \* self.process: None or the QProcess of the outstanding command
    after,        \* self._after_process: the registered continuation
    busy,         \* set_busy: controls disabled, progress bar visible
    log,          \* self.log: the lines the last handler appended (the widget is
                  \* append-only and the program never reads it back)
    procs,        \* the QProcess objects (environment), with the history of their calls
    dirs,         \* names of the subdirectories of BACKUP_DIR
    files,        \* names of the plain files of BACKUP_DIR
    root,         \* BACKUP_DIR exists
    backup_list,  \* self.backup_list: the displayed names
    app,          \* "running", "quit" (QApplication.quit) or "aborted" (exception left a slot)
    last          \* what the last handler did (history of one step)

vars == <<rev, process, after, busy, log, procs, dirs, files, root, backup_list, app, last>>

---------------------------------------------------------------------------
\* Bounds of the model
MaxProcs == 2     \* QProcess objects alive at the same time

\* Program constants
None == 0         \* self.process = None

Pids == 1..MaxProcs
Revisions == {"A", "B"}
ExitCodes == {0, 2}
LaunchOutcomes == {"started", "failed", "timeout"}

---------------------------------------------------------------------------
\* Names: a file or directory name is a sequence of tokens, "." being the dot.
T1 == <<"theme1">>
T1tar == <<"theme1", ".", "tar">>
Alpha == <<"alpha">>
Beta == <<"Beta">>
Gamma == <<"gamma">>
A1 == <<"theme1", ".", "tar", ".", "gz">>
A2 == <<"theme1", ".", "gz">>
W1 == <<"win11-dark">>

Archives == {A1, A2}
DirNames == {T1, T1tar}
TarGz(n) == n \o <<".", "tar", ".", "gz">>
FileNames == Archives \cup {TarGz(n) : n \in DirNames}

\* pathlib: PurePath.stem, the name without its last suffix
LastDot(n) ==
    IF \E i \in 1..Len(n) : n[i] = "."
    THEN CHOOSE i \in 1..Len(n) : n[i] = "." /\ \A j \in (i+1)..Len(n) : n[j] # "."
    ELSE 0
stem(n) ==
    LET i == LastDot(n)
    IN  IF 1 < i /\ i < Len(n) THEN SubSeq(n, 1, i - 1) ELSE n

\* str.lower on a token, and the order of the lowered tokens
lower(t) == IF t = "Beta" THEN "beta" ELSE t
TokRank(t) ==
    CASE t = "." -> 1
      [] t = "alpha" -> 2
      [] t = "beta" -> 3
      [] t = "gamma" -> 4
      [] t = "gz" -> 5
      [] t = "tar" -> 6
      [] t = "theme1" -> 7
      [] OTHER -> 8
RECURSIVE KeyLeq(_, _)
KeyLeq(a, b) ==
    IF a = <<>> THEN TRUE
    ELSE IF b = <<>> THEN FALSE
    ELSE LET x == TokRank(lower(Head(a)))
             y == TokRank(lower(Head(b)))
         IN  IF x < y THEN TRUE
             ELSE IF x > y THEN FALSE
             ELSE KeyLeq(Tail(a), Tail(b))

\* sorted(names, key=str.lower)
RECURSIVE sorted(_)
sorted(D) ==
    IF D = {} THEN <<>>
    ELSE LET m == CHOOSE x \in D : \A y \in D : KeyLeq(x, y)
         IN  <<m>> \o sorted(D \ {m})

---------------------------------------------------------------------------
\* Argument vectors and continuations
NoArgs == [prog |-> "", sub |-> "", name |-> <<>>]
Argv(prog, sub, name) == [prog |-> prog, sub |-> sub, name |-> name]

NoCb == [kind |-> "none", owner |-> None, arch |-> <<>>]
Cb(kind, arch) == [kind |-> kind, owner |-> None, arch |-> arch]

\* Log lines.  p is the QProcess the line is about (history; the widget holds text).
Line(t, p, code) == [t |-> t, p |-> p, code |-> code]
NoText == Line("", None, 0)

\* Output buffered in a channel of a QProcess: "" nothing, "ws" white space only,
\* "txt" some text.  The chunks that arrive hold text.
Chunks == {"txt"}
Concat(a, b) == IF "txt" \in {a, b} THEN "txt" ELSE IF "ws" \in {a, b} THEN "ws" ELSE ""
\* str.strip
strip(c) == IF c = "txt" THEN "txt" ELSE ""

\* A QProcess: st is "unused" (no such object), "starting", "running", "exited" or
\* "dead" (failed to start); out, err its unread channels.  History of the call that
\* created it: cb the continuation it was given, launch what waitForStarted found,
\* inv the exit codes its continuation was invoked with, had whether the directory
\* an import replaces existed when the import began.
NoProc == [st |-> "unused", argv |-> NoArgs, code |-> 0, out |-> "", err |-> "",
           cb |-> "none", launch |-> "", inv |-> <<>>, had |-> FALSE]

FreshLast(op) ==
    [op |-> op, result |-> "", notices |-> <<>>, started |-> None,
     cbInvoked |-> FALSE, cbProcess |-> None, cbBusy |-> FALSE, cbLog |-> NoText,
     nested |-> "", raised |-> FALSE, propagated |-> FALSE,
     which |-> "", asked |-> <<>>, name |-> <<>>,
     q |-> None, cbCode |-> 0, file |-> <<>>, answers |-> <<>>, text |-> <<>>]

\* The state as one record, so that a handler is a function from state to state.
Cur ==
    [process |-> process, after |-> after, busy |-> busy, log |-> log,
     procs |-> procs, dirs |-> dirs, files |-> files, root |-> root,
     backup_list |-> backup_list, app |-> app, last |-> last]

Become(s) ==
    /\ process' = s.process
    /\ after' = s.after
    /\ busy' = s.busy
    /\ log' = s.log
    /\ procs' = s.procs
    /\ dirs' = s.dirs
    /\ files' = s.files
    /\ root' = s.root
    /\ backup_list' = s.backup_list
    /\ app' = s.app
    /\ last' = s.last
    /\ rev' = rev

Forget(ps) == [p \in Pids |-> IF ps[p].st \in {"exited", "dead"} THEN NoProc ELSE ps[p]]

\* A handler starts: a QProcess that has exited or failed to start emits nothing
\* any more and is forgotten.
Begin(op) ==
    [Cur EXCEPT !.last = FreshLast(op),
                !.log = <<>>,
                !.procs = Forget(@)]

---------------------------------------------------------------------------
\* Helpers of MainWindow
Notice(s, n) == [s EXCEPT !.last.notices = Append(@, n)]

\* A variant that only ever disables the controls.
set_busy_only_disables(s, b) == [s EXCEPT !.busy = @ \/ b]

set_busy(s, b) == [s EXCEPT !.busy = b]

append_log(s, line) == IF line = NoText THEN s ELSE [s EXCEPT !.log = Append(@, line)]

HasFree(s) == \E p \in Pids : s.procs[p].st = "unused"
\* Room for one more QProcess once those that ended are forgotten
CanCreate == Cardinality({p \in Pids : procs[p].st \in {"starting", "running"}}) < MaxProcs
NewPid(s) == CHOOSE p \in Pids :
                /\ s.procs[p].st = "unused"
                /\ \A q \in Pids : q < p => s.procs[q].st # "unused"

\* QProcess.start followed by waitForStarted(5000): the process is running, or it
\* failed to start, or it is still starting when the wait times out.
Launched(args, on_finished, outcome) ==
    [NoProc EXCEPT !.argv = args,
                   !.cb = on_finished.kind,
                   !.launch = outcome,
                   !.st = CASE outcome = "started" -> "running"
                            [] outcome = "failed" -> "dead"
                            [] OTHER -> "starting"]

_start_process_unguarded(s, args, on_finished, outcome) ==
    LET p == NewPid(s)
        s1 == set_busy(s, TRUE)
        s2 == append_log(s1, Line("cmd", p, 0))
        s3 == [s2 EXCEPT !.process = p,
                         !.after = [on_finished EXCEPT !.owner = p],
                         !.procs[p] = Launched(args, on_finished, outcome),
                         !.last.started = p]
    IN  IF outcome = "started" THEN s3
        ELSE LET s4 == append_log(s3, Line("startfail", p, 0))
                 s5 == Notice(s4, "Error")
                 s6 == set_busy(s5, FALSE)
             IN  [s6 EXCEPT !.process = None, !.after = NoCb]

\* A variant without the "if self.process" test.
_start_process_no_busy_test(s, args, on_finished, outcome) ==
    IF args = NoArgs THEN s
    ELSE _start_process_unguarded(s, args, on_finished, outcome)

_start_process(s, args, on_finished, outcome) ==
    IF s.process # None THEN Notice(s, "Busy")
    ELSE IF args = NoArgs THEN s
    ELSE _start_process_unguarded(s, args, on_finished, outcome)

---------------------------------------------------------------------------
\* Backup Catalog
\* load_backups: clear the list, mkdir, list the subdirectories sorted by str.lower.
\* fsFail: mkdir or iterdir raises OSError (the list is already cleared then).
\* A variant that does not clear the list first.
load_backups_no_clear(s, fsFail) ==
    IF fsFail THEN [s EXCEPT !.last.raised = TRUE]
    ELSE append_log([s EXCEPT !.root = TRUE, !.backup_list = @ \o sorted(s.dirs)],
                    Line("refresh", None, 0))

load_backups(s, fsFail) ==
    LET s1 == [s EXCEPT !.backup_list = <<>>]
    IN  IF fsFail THEN [s1 EXCEPT !.last.raised = TRUE]
        ELSE append_log([s1 EXCEPT !.root = TRUE, !.backup_list = sorted(s.dirs)],
                        Line("refresh", None, 0))

---------------------------------------------------------------------------
\* The continuations the actions register, and those of another caller: one that
\* leaves the window alone ("plain") and one that starts the next command ("chain").
CbKinds == {"none", "after_backup", "after_import", "after_uninstall", "plain", "chain"}
ApiArgs == Argv("api", "", <<>>)

after_backup(s, code, env) ==
    IF code = 0 THEN load_backups(s, env.fsFail) ELSE s

after_import(s, cb, code, env) ==
    IF code = 0
    THEN LET s1 == IF env.copyFail
                   THEN (IF rev = "B" THEN append_log(s, Line("copyerr", None, 0)) ELSE s)
                   ELSE [s EXCEPT !.files = @ \cup {cb.arch}]
             s2 == append_log(s1, Line("imported", None, 0))
         IN  load_backups(s2, env.fsFail)
    ELSE s

after_uninstall(s, code) ==
    IF code = 0
    THEN LET s1 == IF rev = "B" THEN append_log(s, Line("uninstalled", None, 0)) ELSE s
         IN  [Notice(s1, "Uninstalled") EXCEPT !.app = "quit"]
    ELSE s

after_chain(s, env) ==
    LET s1 == _start_process(s, ApiArgs, NoCb, env.outcome)
    IN  [s1 EXCEPT !.last.nested = IF s.process # None THEN "busy" ELSE "accepted"]

\* cb(exit_code): the call of the continuation, with what it finds on entry.
call_cb(s, cb, code, env) ==
    LET s1 == [s EXCEPT !.procs[cb.owner].inv = Append(@, code),
                        !.last.cbInvoked = TRUE,
                        !.last.cbCode = code,
                        !.last.cbProcess = s.process,
                        !.last.cbBusy = s.busy,
                        !.last.cbLog = IF s.log = <<>> THEN NoText ELSE s.log[Len(s.log)]]
    IN  CASE cb.kind = "after_backup" -> after_backup(s1, code, env)
          [] cb.kind = "after_import" -> after_import(s1, cb, code, env)
          [] cb.kind = "after_uninstall" -> after_uninstall(s1, code)
          [] cb.kind = "chain" -> after_chain(s1, env)
          [] OTHER -> s1

\* An exception leaving a slot: PyQt6 reports it and aborts the application.
Propagate(s) == [s EXCEPT !.last.propagated = TRUE, !.app = "aborted"]

\* "if cb: cb(exit_code)" of rev A, and the try/except around it of rev B
invoke_cb(s, cb, code, env) ==
    IF cb.kind = "none" THEN s
    ELSE LET s1 == call_cb(s, cb, code, env)
         IN  IF ~s1.last.raised THEN s1
             ELSE IF rev = "B" THEN append_log(s1, Line("cberr", None, 0))
             ELSE Propagate(s1)

\* A variant that calls the continuation before the runner is cleared.
_process_finished_cb_first(s, q, exit_code, env) ==
    IF rev = "B" /\ s.process = None THEN [s EXCEPT !.last.result = "ignored"]
    ELSE LET s1 == IF exit_code # 0
                   THEN Notice(append_log(s, Line("fail", q, exit_code)), "Failed")
                   ELSE append_log(s, Line("done", q, 0))
             cb == s1.after
             s2 == invoke_cb(s1, cb, exit_code, env)
             s3 == set_busy(s2, FALSE)
         IN  [s3 EXCEPT !.process = None, !.after = NoCb, !.last.result = "finished"]

\* _process_finished(exit_code, _), the slot of QProcess.finished; q is the QProcess
\* that emitted the signal, which the slot is not told.
_process_finished(s, q, exit_code, env) ==
    IF rev = "B" /\ s.process = None THEN [s EXCEPT !.last.result = "ignored"]
    ELSE LET s1 == IF exit_code # 0
                   THEN Notice(append_log(s, Line("fail", q, exit_code)), "Failed")
                   ELSE append_log(s, Line("done", q, 0))
             s2 == set_busy(s1, FALSE)
             cb == s2.after
             s3 == [s2 EXCEPT !.process = None, !.after = NoCb, !.last.result = "finished"]
         IN  invoke_cb(s3, cb, exit_code, env)

\* _read_stdout / _read_stderr, the slots of readyReadStandardOutput / ...Error:
\* they read the channel of self.process, whichever QProcess signalled.
_read_stdout(s) ==
    IF s.process = None THEN s
    ELSE LET data == s.procs[s.process].out
             s1 == [s EXCEPT !.procs[s.process].out = ""]
         IN  append_log(s1, IF strip(data) = "" THEN NoText ELSE Line("out", s.process, 0))

_read_stderr(s) ==
    IF s.process = None THEN s
    ELSE LET data == s.procs[s.process].err
             s1 == [s EXCEPT !.procs[s.process].err = ""]
         IN  append_log(s1, IF strip(data) = "" THEN NoText ELSE Line("out", s.process, 0))

\* shutil.which(KDE_THEME_CMD) and the notice when it finds nothing
ensure_cmd_available(s, avail) ==
    IF avail THEN [s EXCEPT !.last.which = "found"]
    ELSE [Notice(s, "kde-theme not found") EXCEPT !.last.which = "missing"]

\* A variant that goes on whatever ensure_cmd_available returns.
run_cmd_unchecked(s, args, on_finished, avail, outcome) ==
    _start_process(ensure_cmd_available(s, avail), args, on_finished, outcome)

run_cmd(s, args, on_finished, avail, outcome) ==
    LET s1 == ensure_cmd_available(s, avail)
    IN  IF avail THEN _start_process(s1, args, on_finished, outcome) ELSE s1

---------------------------------------------------------------------------
\* The button handlers.  sel is the current item of the list (<<>>: none), answer
\* the button pressed in a QMessageBox.question, avail whether kde-theme is on the
\* PATH, outcome what waitForStarted finds.
Answers == {"Yes", "No"}
Range(f) == {f[i] : i \in DOMAIN f}
Ask(s, q, a) == [s EXCEPT !.last.asked = Append(@, [q |-> q, a |-> a])]

selected_backup_name(s, sel) ==
    IF sel = <<>> THEN Notice(s, "No backup selected") ELSE [s EXCEPT !.last.name = sel]

\* str.strip on the text of the name field
RECURSIVE lstrip(_)
lstrip(n) == IF n # <<>> /\ Head(n) = " " THEN lstrip(Tail(n)) ELSE n
RECURSIVE rstrip(_)
rstrip(n) == IF n # <<>> /\ n[Len(n)] = " " THEN rstrip(SubSeq(n, 1, Len(n) - 1)) ELSE n
strip_name(n) == rstrip(lstrip(n))

\* any(c in name for c in " /\\:")
Forbidden == {" ", "/", "\\", ":"}
invalid_name(n) == \E i \in 1..Len(n) : n[i] \in Forbidden

\* Path.exists of BACKUP_DIR / name
exists(s, n) == n \in s.dirs \/ n \in s.files

\* A variant that never looks at the name.
create_backup_unvalidated(s, text, answer, avail, outcome) ==
    LET name == strip_name(text)
    IN  run_cmd([s EXCEPT !.last.name = name, !.last.text = text],
                Argv("kde-theme", "backup", name), Cb("after_backup", <<>>), avail, outcome)

create_backup(s, text, answer, avail, outcome) ==
    LET name == strip_name(text)
        s1 == [s EXCEPT !.last.name = name, !.last.text = text]
        go == run_cmd(s1, Argv("kde-theme", "backup", name), Cb("after_backup", <<>>), avail, outcome)
    IN  IF name = <<>> THEN Notice(s1, "No name")
        ELSE IF invalid_name(name) THEN Notice(s1, "Invalid name")
        ELSE IF rev = "B" /\ exists(s1, name)
             THEN (IF answer # "Yes" THEN Ask(s1, "Overwrite?", answer)
                   ELSE run_cmd(Ask(s1, "Overwrite?", answer), Argv("kde-theme", "backup", name),
                                Cb("after_backup", <<>>), avail, outcome))
        ELSE go

restore_theme(s, sel, avail, outcome) ==
    IF sel = <<>> THEN selected_backup_name(s, sel)
    ELSE run_cmd(selected_backup_name(s, sel), Argv("kde-theme", "restore", sel), NoCb, avail, outcome)

restore_layout(s, sel, answer, avail, outcome) ==
    IF sel = <<>> THEN selected_backup_name(s, sel)
    ELSE LET s1 == Ask(selected_backup_name(s, sel), "Restore layout?", answer)
         IN  IF answer # "Yes" THEN s1
             ELSE run_cmd(s1, Argv("kde-theme", "restore-layout", sel), NoCb, avail, outcome)

restore_all(s, sel, answer, avail, outcome) ==
    IF sel = <<>> THEN selected_backup_name(s, sel)
    ELSE LET s1 == Ask(selected_backup_name(s, sel), "Restore all?", answer)
         IN  IF answer # "Yes" THEN s1
             ELSE run_cmd(s1, Argv("kde-theme", "restore-all", sel), NoCb, avail, outcome)

\* delete_backup.  rmFail: shutil.rmtree fails; unlinkFail: Path.unlink raises.
delete_backup_A(s, name, rmFail, unlinkFail, fsFail) ==
    LET s1 == IF rmFail THEN s ELSE [s EXCEPT !.dirs = @ \ {name}]
        tar == TarGz(name)
    IN  IF tar \in s1.files /\ unlinkFail THEN Propagate([s1 EXCEPT !.last.raised = TRUE])
        ELSE LET s2 == [s1 EXCEPT !.files = @ \ {tar}]
                 s3 == append_log(s2, Line("deleted", None, 0))
                 s4 == load_backups(s3, fsFail)
             IN  IF s4.last.raised THEN Propagate(s4) ELSE s4

delete_backup_B(s, name, rmFail, unlinkFail, fsFail) ==
    LET tar == TarGz(name)
        failed(x) == append_log(Notice(x, "Delete error"), Line("delerr", None, 0))
    IN  IF name \in s.dirs /\ rmFail THEN failed(s)
        ELSE LET s1 == [s EXCEPT !.dirs = @ \ {name}]
             IN  IF tar \in s1.files /\ unlinkFail THEN failed(s1)
                 ELSE LET s2 == [s1 EXCEPT !.files = @ \ {tar}]
                          s3 == append_log(s2, Line("deleted", None, 0))
                          s4 == load_backups(s3, fsFail)
                      IN  IF s4.last.raised THEN Propagate(s4) ELSE s4

delete_backup(s, sel, answer, rmFail, unlinkFail, fsFail) ==
    IF sel = <<>> THEN selected_backup_name(s, sel)
    ELSE LET s1 == Ask(selected_backup_name(s, sel), "Delete backup?", answer)
         IN  IF answer # "Yes" THEN s1
             ELSE IF rev = "A" THEN delete_backup_A(s1, sel, rmFail, unlinkFail, fsFail)
             ELSE delete_backup_B(s1, sel, rmFail, unlinkFail, fsFail)

\* import_backup.  file: the archive picked in the file dialog (<<>>: cancelled).
TarArgs(file) == Argv("tar", "-xzf", file)

import_backup_A(s, file, name, rmFail, avail, outcome) ==
    IF exists(s, name) /\ (rmFail \/ name \notin s.dirs)
    THEN Propagate([s EXCEPT !.last.raised = TRUE])
    ELSE run_cmd([s EXCEPT !.dirs = @ \ {name}], TarArgs(file), Cb("after_import", file),
                 avail, outcome)

import_backup_B(s0, file, name, answer2, rmFail, outcome) ==
    LET s == [s0 EXCEPT !.root = TRUE]
    IN  IF exists(s, name)
        THEN LET s1 == Ask(s, "Overwrite existing backup?", answer2)
             IN  IF answer2 # "Yes" THEN s1
                 ELSE IF rmFail \/ name \notin s.dirs THEN Notice(s1, "Error")
                 ELSE _start_process([s1 EXCEPT !.dirs = @ \ {name}], TarArgs(file),
                                     Cb("after_import", file), outcome)
        ELSE _start_process(s, TarArgs(file), Cb("after_import", file), outcome)

import_backup(s, file, answer, answer2, rmFail, avail, outcome) ==
    IF file = <<>> THEN s
    ELSE LET name == stem(file)
             s1 == Ask([s EXCEPT !.last.name = name, !.last.file = file,
                                 !.last.answers = <<answer, answer2>>], "Import?", answer)
             s2 == IF rev = "A" THEN import_backup_A(s1, file, name, rmFail, avail, outcome)
                   ELSE import_backup_B(s1, file, name, answer2, rmFail, outcome)
         IN  IF answer # "Yes" THEN s1
             ELSE IF s2.last.started = None THEN s2
             ELSE [s2 EXCEPT !.procs[s2.last.started].had = name \in s.dirs]

\* uninstall_app.  script: UNINSTALLER_SCRIPT.exists(); pkexec: shutil.which("pkexec")
UninstallArgs == Argv("pkexec", "uninstall-kde-theme.sh", <<>>)

uninstall_app(s, script, answer, pkexec, avail, outcome) ==
    IF ~script THEN Notice(s, "Uninstaller not found")
    ELSE LET s1 == Ask(s, "Uninstall?", answer)
         IN  IF answer # "Yes" THEN s1
             ELSE IF ~pkexec THEN Notice(s1, "pkexec missing")
             ELSE IF rev = "A"
                  THEN run_cmd(s1, UninstallArgs, Cb("after_uninstall", <<>>), avail, outcome)
             ELSE _start_process(s1, UninstallArgs, Cb("after_uninstall", <<>>), outcome)

---------------------------------------------------------------------------
\* Initial state: MainWindow.__init__ has run, load_backups included.
InitDirs == {{T1}, {T1, T1tar}}
InitFiles == {{TarGz(T1)}}

Init ==
    /\ rev \in Revisions
    /\ process = None
    /\ after = NoCb
    /\ busy = FALSE
    /\ log = <<Line("refresh", None, 0)>>
    /\ procs = [p \in Pids |-> NoProc]
    /\ dirs \in InitDirs
    /\ files \in InitFiles
    /\ root = TRUE
    /\ backup_list = sorted(dirs)
    /\ app = "running"
    /\ last = FreshLast("__init__")

\* The user can press a button when the application runs and the controls are enabled.
CanClick == app = "running" /\ ~busy /\ CanCreate
\* What waitForStarted finds when a button started the command.  The wait that times
\* out is left to Spec, which follows the process it leaves behind.
GuiOutcomes == {"started", "failed"}
Selections == Range(backup_list) \cup {<<>>}
EditTexts == {<<" ">>, T1, W1, <<" ", "theme1">>, <<"my", " ", "b">>, <<"a", "/", "b">>,
              <<"a", "\\", "b">>, <<"a", ":", "b">>}

CreateBackup ==
    /\ CanClick
    /\ \E text \in EditTexts, answer \in Answers, avail \in BOOLEAN, outcome \in GuiOutcomes :
          Become(create_backup(Begin("create_backup"), text, answer, avail, outcome))

RestoreTheme ==
    /\ CanClick
    /\ \E sel \in Selections, avail \in BOOLEAN, outcome \in GuiOutcomes :
          Become(restore_theme(Begin("restore_theme"), sel, avail, outcome))

RestoreLayout ==
    /\ CanClick
    /\ \E sel \in Selections, answer \in Answers, avail \in BOOLEAN, outcome \in GuiOutcomes :
          Become(restore_layout(Begin("restore_layout"), sel, answer, avail, outcome))

RestoreAll ==
    /\ CanClick
    /\ \E sel \in Selections, answer \in Answers, avail \in BOOLEAN, outcome \in GuiOutcomes :
          Become(restore_all(Begin("restore_all"), sel, answer, avail, outcome))

DeleteBackup ==
    /\ CanClick
    /\ \E sel \in Selections, answer \in Answers, rmFail, unlinkFail, fsFail \in BOOLEAN :
          Become(delete_backup(Begin("delete_backup"), sel, answer, rmFail, unlinkFail, fsFail))

Refresh ==
    /\ CanClick
    /\ \E fsFail \in BOOLEAN :
          LET s == load_backups(Begin("load_backups"), fsFail)
          IN  Become(IF s.last.raised THEN Propagate(s) ELSE s)

ImportBackup ==
    /\ CanClick
    /\ \E file \in Archives \cup {<<>>}, answer, answer2 \in Answers, rmFail, avail \in BOOLEAN,
          outcome \in GuiOutcomes :
          Become(import_backup(Begin("import_backup"), file, answer, answer2, rmFail, avail, outcome))

UninstallApp ==
    /\ CanClick
    /\ \E script, pkexec, avail \in BOOLEAN, answer \in Answers, outcome \in GuiOutcomes :
          Become(uninstall_app(Begin("uninstall_app"), script, answer, pkexec, avail, outcome))

\* Any other caller of the runner: _start_process called directly, at any time.
StartCall ==
    /\ app = "running"
    /\ CanCreate
    /\ \E args \in {ApiArgs, NoArgs}, kind \in {"none", "plain", "chain"},
          outcome \in LaunchOutcomes :
          Become(_start_process(Begin("_start_process"), args, Cb(kind, <<>>), outcome))

\* The environment: the QProcess objects.
\* What the continuation meets when it runs: fsFail, load_backups raises; copyFail,
\* shutil.copy2 raises; outcome, what waitForStarted finds for a command it starts.
NoEnv == [fsFail |-> FALSE, copyFail |-> FALSE, outcome |-> "started"]
Envs(kind) ==
    CASE kind = "after_backup" -> {[NoEnv EXCEPT !.fsFail = f] : f \in BOOLEAN}
      [] kind = "after_import" ->
            {[NoEnv EXCEPT !.fsFail = f, !.copyFail = c] : f \in BOOLEAN, c \in BOOLEAN}
      [] kind = "chain" -> {[NoEnv EXCEPT !.outcome = o] : o \in LaunchOutcomes}
      [] OTHER -> {NoEnv}

\* A process whose startup wait timed out starts after all, or fails to.
ProcStarted ==
    /\ app = "running"
    /\ \E q \in Pids, st \in {"running", "dead"} :
          /\ procs[q].st = "starting"
          /\ Become([Begin("started") EXCEPT !.procs[q].st = st, !.last.q = q])

\* What the external command does under BACKUP_DIR while it runs.
ArchiveTop(file) == <<Head(file)>>
ProcEffect ==
    /\ app = "running"
    /\ \E q \in Pids :
          /\ procs[q].st = "running"
          /\ \/ /\ procs[q].argv.sub = "backup"
                /\ Become([Begin("effect") EXCEPT !.dirs = @ \cup {procs[q].argv.name}])
             \/ /\ procs[q].argv.prog = "tar"
                /\ Become([Begin("effect") EXCEPT !.dirs = @ \cup {ArchiveTop(procs[q].argv.name)}])

\* A QProcess has output to read.  self.process is only ever assigned a new QProcess,
\* so the channels of a QProcess that is not self.process are never read: what
\* arrives in them is not recorded.
ReadyReadStandardOutput ==
    /\ app = "running"
    /\ \E q \in Pids, c \in Chunks :
          /\ procs[q].st = "running"
          /\ Become(_read_stdout([Begin("_read_stdout") EXCEPT
                                     !.last.q = q,
                                     !.procs[q].out = IF q = process THEN Concat(@, c) ELSE @]))

ReadyReadStandardError ==
    /\ app = "running"
    /\ \E q \in Pids, c \in Chunks :
          /\ procs[q].st = "running"
          /\ Become(_read_stderr([Begin("_read_stderr") EXCEPT
                                     !.last.q = q,
                                     !.procs[q].err = IF q = process THEN Concat(@, c) ELSE @]))

Finished ==
    /\ app = "running"
    /\ \E q \in Pids, code \in ExitCodes, env \in Envs(after.kind) :
          /\ procs[q].st = "running"
          /\ after.kind = "chain" => CanCreate
          /\ Become(_process_finished([Begin("_process_finished") EXCEPT
                                          !.procs[q].st = "exited",
                                          !.procs[q].code = code,
                                          !.last.q = q],
                                      q, code, env))

GuiNext ==
    \/ CreateBackup \/ RestoreTheme \/ RestoreLayout \/ RestoreAll
    \/ DeleteBackup \/ Refresh \/ ImportBackup \/ UninstallApp
    \/ ProcEffect
    \/ ReadyReadStandardOutput \/ ReadyReadStandardError \/ Finished

\* The window driven by its buttons.
SpecGui == Init /\ [][GuiNext]_vars

\* The Backup Catalog alone: load_backups applied to any content of the root, as the
\* window or another program left it, and to any list displayed before.
CatDirs == {Alpha, Beta, Gamma}
CatFiles == {TarGz(Alpha), TarGz(Beta)}
PrevLists == {<<>>, <<Alpha>>, <<T1, Beta>>}
InitCatalog ==
    /\ rev \in Revisions
    /\ process = None
    /\ after = NoCb
    /\ busy = FALSE
    /\ log = <<>>
    /\ procs = [p \in Pids |-> NoProc]
    /\ root \in BOOLEAN
    /\ dirs \in SUBSET CatDirs
    /\ files \in SUBSET CatFiles
    /\ ~root => (dirs = {} /\ files = {})
    /\ backup_list \in PrevLists
    /\ app = "running"
    /\ last = FreshLast("")
CatalogNext == Refresh
SpecCatalog == InitCatalog /\ [][CatalogNext]_vars

\* The Command Runner driven by any caller of _start_process.
InitRunner == Init /\ dirs = {T1}
Next ==
    \/ StartCall
    \/ ProcStarted
    \/ ReadyReadStandardOutput \/ ReadyReadStandardError
    \/ Finished
Spec == InitRunner /\ [][Next]_vars

---------------------------------------------------------------------------
\* Properties of the Command Runner (checked under Spec)
Live == {p \in Pids : procs[p].st \in {"starting", "running"}}
Lines == {log[i] : i \in DOMAIN log}
Notices == {last.notices[i] : i \in DOMAIN last.notices}
ProcessEvents == {"started", "_read_stdout", "_read_stderr", "_process_finished"}

\* C1: a _start_process call made while self.process is set raises the Busy notice and
\* changes nothing: self.process, self._after_process, the controls, the log and the
\* QProcess objects are as before, no process is launched, and the continuation that
\* stays registered is the one of the outstanding command.
C1_BusyRejectedChangesNothing ==
    [][(process # None /\ last'.op = "_start_process")
          => /\ last'.notices = <<"Busy">>
             /\ process' = process
             /\ after' = after
             /\ after'.owner = process'
             /\ busy' = busy
             /\ log' = <<>>
             /\ procs' = Forget(procs)
             /\ last'.started = None]_vars

C1_Witness ==
    /\ last.op = "_start_process"
    /\ last.notices = <<"Busy">>
    /\ process # None
    /\ after.kind = "chain"

\* C2: the continuation of a call whose process started is invoked exactly once, with
\* the exit code of that process; the continuation of a call whose launch failed or
\* timed out is never invoked; no finished event invokes the continuation of another
\* command.
C2_ContinuationExactlyOnce ==
    \A p \in Pids :
        /\ procs[p].launch \in {"failed", "timeout"} => procs[p].inv = <<>>
        /\ Len(procs[p].inv) <= 1
        /\ \A i \in DOMAIN procs[p].inv :
              procs[p].st = "exited" /\ procs[p].inv[i] = procs[p].code
        /\ (procs[p].st = "exited" /\ procs[p].launch = "started" /\ procs[p].cb # "none")
              => procs[p].inv = <<procs[p].code>>

\* C3: at most one process launched by the runner is outstanding (starting or
\* running), a process whose startup wait timed out included.
C3_AtMostOneOutstanding == Cardinality(Live) <= 1

\* C4 as claimed: the continuation is invoked after the finishing line is logged and
\* before the runner is Idle, so that it finds self.process set and the controls
\* disabled, and a _start_process it issues is rejected as Busy.
C4_ContinuationBeforeIdle ==
    last.cbInvoked
        => /\ last.cbLog.t \in {"done", "fail"}
           /\ last.cbProcess # None
           /\ last.cbBusy
           /\ last.nested # "" => last.nested = "busy"

\* C4 as amended: when a process finishes the runner appends the finishing line, goes
\* back to Idle (controls re-enabled, self.process and self._after_process cleared) and
\* only then invokes the continuation, with the exit code of the finished event; a
\* _start_process issued inside the continuation is accepted.
C4_IdleBeforeContinuation ==
    last.cbInvoked
        => /\ last.op = "_process_finished"
           /\ last.cbLog = (IF last.cbCode = 0 THEN Line("done", last.q, 0)
                            ELSE Line("fail", last.q, last.cbCode))
           /\ last.cbProcess = None
           /\ ~last.cbBusy
           /\ last.nested # "" => last.nested = "accepted"

C4_Witness ==
    /\ last.cbInvoked
    /\ last.nested = "accepted"
    /\ last.cbCode = 2
    /\ process # None

\* C5: text of a command is appended to the log only between its "$ argv" line and its
\* finishing line; and a command that exits with a nonzero code gets a failure line with
\* that code, a notice, and its continuation, if any, invoked with that code.
C5_OutputThenFinishingLine ==
    /\ \A l \in Lines : l.t = "out" => procs[l.p].st = "running"
    /\ \A p \in Pids :
          (procs[p].st = "exited" /\ procs[p].launch = "started" /\ procs[p].code # 0)
             => /\ Line("fail", p, procs[p].code) \in Lines
                /\ "Failed" \in Notices
                /\ procs[p].cb # "none" => procs[p].inv = <<procs[p].code>>

\* C6: a launch that fails or times out is reported (log line and notice), invokes no
\* continuation and leaves the runner Idle; and no later event of that process changes
\* the runner (self.process, self._after_process, the controls, the log).
C6_LaunchFailureIsFinal ==
    [][/\ (last'.started # None /\ procs'[last'.started].launch \in {"failed", "timeout"})
            => /\ Line("startfail", last'.started, 0) \in {log'[i] : i \in DOMAIN log'}
               /\ "Error" \in {last'.notices[i] : i \in DOMAIN last'.notices}
               /\ procs'[last'.started].inv = <<>>
               /\ process' = None /\ after' = NoCb /\ ~busy'
       /\ (last'.op \in ProcessEvents /\ procs[last'.q].launch \in {"failed", "timeout"})
            => /\ UNCHANGED <<process, after, busy>>
               /\ log' = <<>>]_vars

---------------------------------------------------------------------------
\* Properties of the button handlers (checked under SpecGui)
KdeThemeActions == {"create_backup", "restore_theme", "restore_layout", "restore_all"}

\* C7: an exception raised inside the continuation is caught and logged by
\* _process_finished and does not leave it; afterwards the runner is Idle.
C7_ContinuationErrorCaught ==
    (last.cbInvoked /\ last.raised)
        => /\ ~last.propagated
           /\ Line("cberr", None, 0) \in Lines
           /\ app = "running"
           /\ process = None /\ after = NoCb /\ ~busy

\* C8: when kde-theme is not on the PATH, an action that needs it raises the
\* "kde-theme not found" notice and starts nothing: no QProcess is created, no
\* continuation is registered, the runner is Idle, the controls stay enabled and the
\* application keeps running.
C8_MissingToolAborts ==
    (last.op \in KdeThemeActions /\ last.which = "missing")
        => /\ last.notices = <<"kde-theme not found">>
           /\ last.started = None
           /\ Live = {}
           /\ process = None /\ after = NoCb /\ ~busy
           /\ log = <<>>
           /\ app = "running"

C8_Witness ==
    /\ last.op = "restore_all"
    /\ last.which = "missing"
    /\ last.asked = <<[q |-> "Restore all?", a |-> "Yes"]>>

\* C9: importing theme1.tar.gz while root/theme1/ exists, the user declining to
\* overwrite: the name derived from the archive is theme1, nothing under the root
\* changes and no command is started.
C9_DeclinedImportChangesNothing ==
    [][(/\ last'.op = "import_backup"
        /\ last'.file = A1
        /\ T1 \in dirs
        /\ last'.answers = <<"Yes", "No">>)
          => /\ last'.name = T1
             /\ UNCHANGED <<dirs, files>>
             /\ last'.started = None]_vars

\* C10: the confirmation rule of the action table.  Restore layout, restore all,
\* import and uninstall start nothing and change nothing under the root when the user
\* answers No; restore theme asks nothing; create backup asks exactly when a directory
\* named NAME exists, and starts nothing when that is declined.
C10_ConfirmationRule ==
    [][/\ (last'.op \in {"restore_layout", "restore_all", "import_backup", "uninstall_app"}
           /\ \E i \in DOMAIN last'.asked : last'.asked[i].a = "No")
            => (last'.started = None /\ UNCHANGED <<dirs, files>>)
       /\ last'.op = "restore_theme" => last'.asked = <<>>
       /\ (last'.op = "create_backup" /\ last'.name # <<>> /\ ~invalid_name(last'.name))
            => /\ (last'.asked # <<>>) <=> (last'.name \in dirs)
               /\ (\E i \in DOMAIN last'.asked : last'.asked[i].a = "No")
                     => last'.started = None]_vars

\* C11: create_backup validates NAME, the trimmed text of the name field, before it
\* invokes the runner.  A NAME that is empty or holds a space, "/", "\" or ":" is
\* rejected with a notice, nothing is started and nothing changes.  Any other NAME,
\* with kde-theme available and no confirmation declined, is started as
\* [kde-theme, backup, NAME].
C11_NameValidation ==
    [][last'.op = "create_backup" =>
         LET name == last'.name
             bad == \E i \in DOMAIN name : name[i] \in {" ", "/", "\\", ":"}
             declined == \E i \in DOMAIN last'.asked : last'.asked[i].a = "No"
         IN  /\ (name = <<>> \/ bad)
                  => /\ last'.notices = <<IF name = <<>> THEN "No name" ELSE "Invalid name">>
                     /\ last'.started = None
                     /\ last'.asked = <<>>
                     /\ log' = <<>>
                     /\ procs' = Forget(procs)
                     /\ UNCHANGED <<process, after, busy, dirs, files, backup_list, app>>
             /\ (name # <<>> /\ ~bad /\ last'.which = "found" /\ ~declined)
                  => /\ last'.started # None
                     /\ procs'[last'.started].argv = Argv("kde-theme", "backup", name)
                     /\ log'[1] = Line("cmd", last'.started, 0)
             /\ (name # <<>> /\ ~bad) => last'.which # "" \/ declined
             /\ last'.text = <<" ">> => name = <<>>
             /\ last'.text = <<" ", "theme1">> => name = T1]_vars

C11_Witness ==
    /\ last.op = "create_backup"
    /\ last.name = W1
    /\ last.started # None
    /\ procs[last.started].argv = Argv("kde-theme", "backup", W1)

\* C12: the displayed list is re-derived from disk after every operation that changed
\* the subdirectories of the root: whenever the window is idle, the list is the
\* sorted set of the subdirectories of BACKUP_DIR.
C12_ListMatchesDisk ==
    (app = "running" /\ process = None /\ ~busy) => backup_list = sorted(dirs)

\* C15: whenever the window waits for the next event, the controls are disabled and
\* the progress bar is visible exactly when self.process is set, and
\* self._after_process is None when self.process is None.
C15_BusyIffProcessSet ==
    app = "running"
        => /\ busy <=> process # None
           /\ process = None => after = NoCb

C15_Witness ==
    /\ last.op = "_start_process"
    /\ last.started # None
    /\ procs[last.started].launch = "timeout"
    /\ process = None /\ ~busy /\ after = NoCb
    /\ \E p \in Pids : p # last.started /\ procs[p].st = "running"

\* C16: an import that does not complete leaves the directory of the same name that
\* existed before: when a confirmed import_backup starts no command or the command
\* fails to launch, and when the tar command exits with a nonzero code, the directory
\* root/NAME that existed when the import began still exists.
C16_FailedImportKeepsDirectory ==
    [][/\ (/\ last'.op = "import_backup"
           /\ last'.answers # <<>>
           /\ last'.answers[1] = "Yes"
           /\ last'.name \in dirs
           /\ (last'.started = None \/ procs'[last'.started].launch # "started"))
            => last'.name \in dirs'
       /\ (/\ last'.op = "_process_finished"
           /\ procs[last'.q].argv.prog = "tar"
           /\ procs[last'.q].had
           /\ procs'[last'.q].code # 0)
            => stem(procs[last'.q].argv.name) \in dirs']_vars

\* C14: a confirmed delete_backup of NAME removes the directory NAME if present, then
\* the file NAME.tar.gz if present, and logs the success line; when the removal of
\* the directory fails, the failure is reported, the archive is left alone and no
\* success line is logged.
C14_DeleteStopsOnDirectoryFailure ==
    [][(last'.op = "delete_backup" /\ last'.asked = <<[q |-> "Delete backup?", a |-> "Yes"]>>)
          => LET name == last'.name
                 deleted == Line("deleted", None, 0) \in {log'[i] : i \in DOMAIN log'}
             IN  /\ (name \in dirs /\ name \in dirs')
                       => /\ files' = files
                          /\ ~deleted
                          /\ "Delete error" \in {last'.notices[i] : i \in DOMAIN last'.notices}
                 /\ deleted => /\ dirs' = dirs \ {name}
                               /\ files' = files \ {TarGz(name)}]_vars

---------------------------------------------------------------------------
\* Properties of the Backup Catalog (checked under SpecCatalog)

\* C13: load_backups creates the root if it is missing, leaves its content alone and
\* replaces the displayed list by the names of the subdirectories, plain files
\* excluded, each once, nothing of the previous list kept, in case-insensitive order:
\* alpha, Beta, gamma give [alpha, Beta, gamma], an empty or missing root gives [].
C13_ListIsSortedSubdirectories ==
    [][(last'.op = "load_backups" /\ ~last'.raised)
          => /\ root'
             /\ UNCHANGED <<dirs, files>>
             /\ backup_list' = SelectSeq(<<Alpha, Beta, Gamma>>, LAMBDA n : n \in dirs)
             /\ (~root) => backup_list' = <<>>]_vars

C13_Witness ==
    /\ last.op = "load_backups"
    /\ ~last.raised
    /\ files = CatFiles
    /\ backup_list = <<Alpha, Beta, Gamma>>

====
